---- MODULE Spec2Model ----
(***************************************************************************)
(* Model of src/analysis/analyze_results.py: the benchmark post-processing *)
(* pipeline  walk -> parse -> aggregate -> export CSV -> plot.             *)
(*                                                                         *)
(* Text is a string; the string operations of the program (strip, split,   *)
(* startswith, the directory regex, float(), int(), <) are computed on its *)
(* sequence of characters, as the Python code computes them.  Numbers read *)
(* by float() are exact rationals <<numerator, denominator>> in lowest     *)
(* terms (binary rounding of Python floats is not modelled).               *)
(***************************************************************************)
EXTENDS Integers, Sequences, FiniteSets, TLC

(***************************************************************************)
(* Bounds of the model.                                                    *)
(***************************************************************************)
\* Directories os.walk yields in a run, and files they hold together.
MaxDirs == 2
MaxFiles == 2
\* Lines of a result file (five metric lines and one more).
MaxLines == 6
\* Records of a table handed to the exporter.
MaxRows == 3

(***************************************************************************)
(* Characters and strings.                                                 *)
(***************************************************************************)
\* The characters of a string, and the string of a sequence of characters.
Chars(s) == [i \in 1..Len(s) |-> SubSeq(s, i, i)]

RECURSIVE Str(_)
Str(cs) == IF cs = <<>> THEN "" ELSE Head(cs) \o Str(Tail(cs))

Digits == <<"0", "1", "2", "3", "4", "5", "6", "7", "8", "9">>
Upper == Chars("ABCDEFGHIJKLMNOPQRSTUVWXYZ")
Lower == Chars("abcdefghijklmnopqrstuvwxyz")

IndexOf(seq, c) == CHOOSE i \in 1..Len(seq) : seq[i] = c
IsIn(seq, c) == \E i \in 1..Len(seq) : seq[i] = c

IsDigit(c) == IsIn(Digits, c)
DigitVal(c) == IndexOf(Digits, c) - 1
IsSpace(c) == c = " "

\* Code point of a character, as Python's str comparison uses it.
Ord(c) ==
    IF IsDigit(c) THEN 47 + IndexOf(Digits, c)
    ELSE IF IsIn(Upper, c) THEN 64 + IndexOf(Upper, c)
    ELSE IF IsIn(Lower, c) THEN 96 + IndexOf(Lower, c)
    ELSE IF c = " " THEN 32
    ELSE IF c = "-" THEN 45
    ELSE IF c = "." THEN 46
    ELSE IF c = ":" THEN 58
    ELSE IF c = "_" THEN 95
    ELSE 181   \* the micro sign

\* Python's  a < b  on str: lexicographic by code point.
RECURSIVE CharsLess(_, _)
CharsLess(a, b) ==
    IF b = <<>> THEN FALSE
    ELSE IF a = <<>> THEN TRUE
    ELSE IF Head(a) = Head(b) THEN CharsLess(Tail(a), Tail(b))
    ELSE Ord(Head(a)) < Ord(Head(b))

StrLess(a, b) == CharsLess(Chars(a), Chars(b))

startswith(s, p) == Len(s) >= Len(p) /\ SubSeq(s, 1, Len(p)) = p

RECURSIVE lstrip(_)
lstrip(s) == IF s # <<>> /\ IsSpace(Head(s)) THEN lstrip(Tail(s)) ELSE s

RECURSIVE rstrip(_)
rstrip(s) ==
    IF s # <<>> /\ IsSpace(s[Len(s)]) THEN rstrip(SubSeq(s, 1, Len(s) - 1)) ELSE s

strip(s) == rstrip(lstrip(s))

\* str.split() with no argument: the maximal runs of non-whitespace.
RECURSIVE SplitFrom(_, _, _)
SplitFrom(s, cur, acc) ==
    IF s = <<>> THEN (IF cur = <<>> THEN acc ELSE Append(acc, cur))
    ELSE IF IsSpace(Head(s))
         THEN SplitFrom(Tail(s), <<>>, IF cur = <<>> THEN acc ELSE Append(acc, cur))
         ELSE SplitFrom(Tail(s), Append(cur, Head(s)), acc)

split(s) == SplitFrom(s, <<>>, <<>>)

\* " ".join(tokens)
RECURSIVE join(_)
join(toks) ==
    IF toks = <<>> THEN <<>>
    ELSE IF Len(toks) = 1 THEN toks[1]
    ELSE toks[1] \o <<" ">> \o join(Tail(toks))

\* seq[k:] with a 0-based start, as a Python slice (never raises).
SliceFrom(seq, k) == IF k >= Len(seq) THEN <<>> ELSE SubSeq(seq, k + 1, Len(seq))

\* 1-based position of the first occurrence of sub in s, 0 when absent.
RECURSIVE FindAt(_, _, _)
FindAt(s, sub, i) ==
    IF i + Len(sub) - 1 > Len(s) THEN 0
    ELSE IF SubSeq(s, i, i + Len(sub) - 1) = sub THEN i
    ELSE FindAt(s, sub, i + 1)

find(s, sub) == FindAt(s, sub, 1)
contains(s, sub) == find(s, sub) # 0

(***************************************************************************)
(* Numbers.                                                                *)
(***************************************************************************)
RECURSIVE Gcd(_, _)
Gcd(a, b) == IF b = 0 THEN a ELSE Gcd(b, a % b)

Rat(n, d) == LET g == Gcd(n, d) IN IF g = 0 THEN <<0, 1>> ELSE <<n \div g, d \div g>>
RatDiv(q, k) == Rat(q[1], q[2] * k)

RECURSIVE DigitsToInt(_, _)
DigitsToInt(s, acc) ==
    IF s = <<>> THEN acc ELSE DigitsToInt(Tail(s), 10 * acc + DigitVal(Head(s)))

AllDigits(s) == \A i \in 1..Len(s) : IsDigit(s[i])

\* int() of a non-empty run of decimal digits.
int(s) == DigitsToInt(s, 0)

RECURSIVE Pow10(_)
Pow10(n) == IF n = 0 THEN 1 ELSE 10 * Pow10(n - 1)

ValueError == "ValueError"
IndexError == "IndexError"
\* None where a metric value (a pair) or a regex match (a pair) is expected,
\* and None where an int is expected (the ints of the program are >= 0).
None == <<>>
NoneInt == -1

Ok(v) == [ok |-> TRUE, val |-> v]
Raise(e) == [ok |-> FALSE, err |-> e]

\* float(tok) for unsigned decimal literals  d+ , d+.d* , d*.d+ ; every other
\* token of the model's inputs is one Python rejects with ValueError.
float(tok) ==
    LET dot == find(tok, <<".">>)
        ip  == IF dot = 0 THEN tok ELSE SubSeq(tok, 1, dot - 1)
        fp  == IF dot = 0 THEN <<>> ELSE SubSeq(tok, dot + 1, Len(tok))
    IN  IF AllDigits(ip) /\ AllDigits(fp) /\ Len(ip) + Len(fp) > 0
        THEN Ok(Rat(DigitsToInt(ip \o fp, 0), Pow10(Len(fp))))
        ELSE Raise(ValueError)

(***************************************************************************)
(* Configuration (analyze_results.py, lines 10-35).                        *)
(***************************************************************************)
VALID_THREAD_COUNTS == {4, 8, 16}

MetricKeys ==
    {"runtime_ms", "throughput_reqs_per_sec", "latency_ms",
     "avg_enqueue_ms", "avg_dequeue_ms"}

\* PLOT_SUBDIRS: metric key -> sub-folder of the plots directory.
PLOT_SUBDIRS ==
    [k \in MetricKeys |->
        CASE k = "runtime_ms" -> "runtime"
          [] k = "throughput_reqs_per_sec" -> "throughput"
          [] k = "latency_ms" -> "latency"
          [] k = "avg_enqueue_ms" -> "enqueue"
          [] k = "avg_dequeue_ms" -> "dequeue"]

\* The character U+00B5 (micro sign) of the unit token of microseconds.  The
\* strings of the model are ASCII (TLC stores a character of a state as one
\* byte): the micro sign is written "@", a character that occurs nowhere else
\* in the inputs and, like U+00B5, is no blank, digit or letter.
MicroSign == "@"

(***************************************************************************)
(* Parsing helpers.                                                        *)
(***************************************************************************)
\* Variant of parse_time_to_ms: a unit it does not know is taken as ms.
parse_time_to_ms_default(value_with_unit) ==
    LET toks == split(strip(Chars(value_with_unit)))
    IN  IF Len(toks) # 2 THEN Raise(ValueError)
        ELSE LET value == float(toks[1])
                 unit  == toks[2]
             IN  IF ~value.ok THEN value
                 ELSE IF unit = <<MicroSign, "s">> THEN Ok(RatDiv(value.val, 1000))
                 ELSE IF unit = <<"n", "s">> THEN Ok(RatDiv(value.val, 1000000))
                 ELSE Ok(value.val)

\* parse_time_to_ms: "<value> <unit>" -> milliseconds, or ValueError.
parse_time_to_ms(value_with_unit) ==
    LET toks == split(strip(Chars(value_with_unit)))
    IN  IF Len(toks) # 2 THEN Raise(ValueError)
        ELSE LET value == float(toks[1])
                 unit  == toks[2]
             IN  IF ~value.ok THEN value
                 ELSE IF unit = <<"m", "s">> THEN Ok(value.val)
                 ELSE IF unit = <<MicroSign, "s">> THEN Ok(RatDiv(value.val, 1000))
                 ELSE IF unit = <<"n", "s">> THEN Ok(RatDiv(value.val, 1000000))
                 ELSE Raise(ValueError)

\* The maximal run of decimal digits at the start of s.
RECURSIVE DigitRun(_)
DigitRun(s) ==
    IF s # <<>> /\ IsDigit(Head(s)) THEN <<Head(s)>> \o DigitRun(Tail(s)) ELSE <<>>

\* Variant of DIR_RE_fullmatch: DIR_RE.match, which accepts a name that goes
\* on after the pattern.
DIR_RE_match(name) ==
    LET dirname == Chars(name)
        pre == Chars("threads_")
        suf == Chars("_reqPerClient")
    IN  IF ~startswith(dirname, pre) THEN None
        ELSE LET r1 == SliceFrom(dirname, Len(pre))
                 g1 == DigitRun(r1)
                 r2 == SliceFrom(r1, Len(g1))
             IN  IF g1 = <<>> \/ ~startswith(r2, <<"_">>) THEN None
                 ELSE LET r3 == SliceFrom(r2, 1)
                          g2 == DigitRun(r3)
                          r4 == SliceFrom(r3, Len(g2))
                      IN  IF g2 = <<>> \/ ~startswith(r4, suf) THEN None
                          ELSE <<g1, g2>>

\* DIR_RE.fullmatch(dirname) for  threads_(\d+)_(\d+)_reqPerClient : the two
\* digit groups, or None.  A digit run cannot contain "_", so the greedy
\* groups are the only way to match.
DIR_RE_fullmatch(name) ==
    LET dirname == Chars(name)
        pre == Chars("threads_")
        suf == Chars("_reqPerClient")
    IN  IF ~startswith(dirname, pre) THEN None
        ELSE LET r1 == SliceFrom(dirname, Len(pre))
                 g1 == DigitRun(r1)
                 r2 == SliceFrom(r1, Len(g1))
             IN  IF g1 = <<>> \/ ~startswith(r2, <<"_">>) THEN None
                 ELSE LET r3 == SliceFrom(r2, 1)
                          g2 == DigitRun(r3)
                          r4 == SliceFrom(r3, Len(g2))
                      IN  IF g2 = <<>> \/ r4 # suf THEN None ELSE <<g1, g2>>

\* parse_threads_and_reqs: <<threads, reqs>>, or <<None, None>>.
parse_threads_and_reqs(dirname) ==
    LET m == DIR_RE_fullmatch(dirname)
    IN  IF m = None THEN <<NoneInt, NoneInt>> ELSE <<int(m[1]), int(m[2])>>

\* parse_queue_name: filename.split("_results_")[0]
parse_queue_name(filename) ==
    LET i == find(Chars(filename), Chars("_results_"))
    IN  IF i = 0 THEN filename ELSE SubSeq(filename, 1, i - 1)

\* seq[k] with a 0-based index: the element, or IndexError.
Item(seq, k) == IF k < Len(seq) THEN Ok(seq[k + 1]) ELSE Raise(IndexError)

\* float(line.split()[k])
FloatAt(line, k) ==
    LET t == Item(split(line), k) IN IF t.ok THEN float(t.val) ELSE t

\* parse_time_to_ms(" ".join(line.split()[k:]))
TimeFrom(line, k) == parse_time_to_ms(Str(join(SliceFrom(split(line), k))))

EmptyMetrics == [k \in MetricKeys |-> None]

\* One iteration of the loop over the lines of the file: the metrics after the
\* line, or the exception the line raises.
ParseLine(metrics, rawline) ==
    LET line == strip(Chars(rawline))
        Set(key, r) == IF r.ok THEN Ok([metrics EXCEPT ![key] = r.val]) ELSE r
    IN  IF startswith(line, Chars("Total runtime:"))
            THEN Set("runtime_ms", FloatAt(line, 2))
        ELSE IF startswith(line, Chars("Avg enqueue time:"))
            THEN Set("avg_enqueue_ms", TimeFrom(line, 3))
        ELSE IF startswith(line, Chars("Avg dequeue time:"))
            THEN Set("avg_dequeue_ms", TimeFrom(line, 3))
        ELSE IF startswith(line, Chars("Avg end-to-end request latency:"))
            THEN Set("latency_ms", TimeFrom(line, 4))
        ELSE IF startswith(line, Chars("Throughput:"))
            THEN Set("throughput_reqs_per_sec", FloatAt(line, 1))
        ELSE Ok(metrics)

\* Variant of ParseLines: the loop ends at the throughput line.
RECURSIVE ParseLines_break(_, _)
ParseLines_break(metrics, lines) ==
    IF lines = <<>> THEN Ok(metrics)
    ELSE LET r == ParseLine(metrics, Head(lines))
         IN  IF ~r.ok THEN r
             ELSE IF startswith(strip(Chars(Head(lines))), Chars("Throughput:"))
                  THEN r
                  ELSE ParseLines_break(r.val, Tail(lines))

RECURSIVE ParseLines(_, _)
ParseLines(metrics, lines) ==
    IF lines = <<>> THEN Ok(metrics)
    ELSE LET r == ParseLine(metrics, Head(lines))
         IN  IF r.ok THEN ParseLines(r.val, Tail(lines)) ELSE r

\* Variant of parse_result_file: without the test for missing metrics.
parse_result_file_unchecked(lines) == ParseLines(EmptyMetrics, lines)

\* parse_result_file, on the lines of the file: the five metrics, or the
\* exception raised.
parse_result_file(lines) ==
    LET r == ParseLines(EmptyMetrics, lines)
    IN  IF ~r.ok THEN r
        ELSE IF \E k \in MetricKeys : r.val[k] = None THEN Raise(ValueError)
        ELSE r

\* str(n) of an int n >= 0, as an f-string formats it.
RECURSIVE str(_)
str(n) == IF n < 10 THEN <<Digits[n + 1]>> ELSE str(n \div 10) \o <<Digits[(n % 10) + 1]>>

(***************************************************************************)
(* Aggregation and export helpers.                                         *)
(***************************************************************************)
\* The dict appended to rows by gather_results.
Row(threads, reqs, queue_name, metrics) ==
    [k \in {"threads", "requests_per_client", "queue"} \cup MetricKeys |->
        IF k = "threads" THEN threads
        ELSE IF k = "requests_per_client" THEN reqs
        ELSE IF k = "queue" THEN queue_name
        ELSE metrics[k]]

\* Variant of KeyLess: the key is (threads, requests_per_client, queue).
KeyLess_threads_first(a, b) ==
    \/ a.threads < b.threads
    \/ /\ a.threads = b.threads
       /\ \/ a.requests_per_client < b.requests_per_client
          \/ a.requests_per_client = b.requests_per_client /\ StrLess(a.queue, b.queue)

\* Python's  key(a) < key(b)  for the sort key of write_csv,
\* (requests_per_client, threads, queue): tuples compare lexicographically.
KeyLess(a, b) ==
    \/ a.requests_per_client < b.requests_per_client
    \/ /\ a.requests_per_client = b.requests_per_client
       /\ \/ a.threads < b.threads
          \/ a.threads = b.threads /\ StrLess(a.queue, b.queue)

\* sorted(rows, key = ...): a stable sort; computed by inserting each row, in
\* table order, behind every row already placed whose key is not greater.
RECURSIVE InsertSorted(_, _)
InsertSorted(out, r) ==
    IF out = <<>> THEN <<r>>
    ELSE IF KeyLess(r, Head(out)) THEN <<r>> \o out
    ELSE <<Head(out)>> \o InsertSorted(Tail(out), r)

RECURSIVE SortInto(_, _)
SortInto(out, rows) ==
    IF rows = <<>> THEN out ELSE SortInto(InsertSorted(out, Head(rows)), Tail(rows))

sorted(rows) == SortInto(<<>>, rows)

\* Variant of write_csv: of the rows with the same key only the last is
\* written (the rows pass through a dict keyed by the sort key).
RECURSIVE LastPerKey(_)
LastPerKey(rows) ==
    IF rows = <<>> THEN <<>>
    ELSE IF \E i \in 2..Len(rows) :
               ~KeyLess(rows[1], rows[i]) /\ ~KeyLess(rows[i], rows[1])
         THEN LastPerKey(Tail(rows))
         ELSE <<Head(rows)>> \o LastPerKey(Tail(rows))

write_csv_dedup(fs, rows, filename) ==
    [f \in DOMAIN fs \cup {filename} |->
        IF f = filename THEN sorted(LastPerKey(rows)) ELSE fs[f]]

\* write_csv: the files of the CSV directory after writing rows to filename
\* (mode "w": an existing file is replaced).  A file is its sequence of data
\* rows; the header row is the same for every file.
write_csv(fs, rows, filename) ==
    [f \in DOMAIN fs \cup {filename} |-> IF f = filename THEN sorted(rows) ELSE fs[f]]

\* The distinct requests_per_client values, in order of first appearance
\* (the keys of the defaultdict "grouped").
RECURSIVE GroupKeys(_, _)
GroupKeys(rows, acc) ==
    IF rows = <<>> THEN acc
    ELSE LET r == Head(rows).requests_per_client
         IN  GroupKeys(Tail(rows),
                       IF IsIn(acc, r) THEN acc ELSE Append(acc, r))

\* Variant of Subset: every group holds the whole table.
Subset_unfiltered(rows, reqs) == rows

\* grouped[reqs]: the rows of that workload, in table order.
RECURSIVE Subset(_, _)
Subset(rows, reqs) ==
    IF rows = <<>> THEN <<>>
    ELSE IF Head(rows).requests_per_client = reqs
         THEN <<Head(rows)>> \o Subset(Tail(rows), reqs)
         ELSE Subset(Tail(rows), reqs)

WorkloadFile(reqs) == "aggregate_" \o Str(str(reqs)) \o "_reqPerClient.csv"

\* write_per_workload_csvs: one write_csv per group.
RECURSIVE WriteGroups(_, _, _)
WriteGroups(fs, rows, keys) ==
    IF keys = <<>> THEN fs
    ELSE WriteGroups(write_csv(fs, Subset(rows, Head(keys)), WorkloadFile(Head(keys))),
                     rows, Tail(keys))

write_per_workload_csvs(fs, rows) == WriteGroups(fs, rows, GroupKeys(rows, <<>>))

\* plot_metric: the path of the image it saves.
PlotPath(metric_key, reqs) ==
    <<PLOT_SUBDIRS[metric_key], metric_key \o "_" \o Str(str(reqs)) \o ".png">>

\* generate_all_plots: five charts per workload.
generate_all_plots(rows) ==
    {PlotPath(k, GroupKeys(rows, <<>>)[i]) :
        k \in MetricKeys, i \in 1..Len(GroupKeys(rows, <<>>))}

(***************************************************************************)
(* Inputs: the results trees the model explores.                           *)
(***************************************************************************)
\* Base names of directories os.walk can yield.
DirNames ==
    {"threads_8_2_reqPerClient", "threads_16_2_reqPerClient",
     "threads_4_10_reqPerClient", "threads_32_2_reqPerClient",
     "xthreads_8_2_reqPerClient", "threads_8_2_reqPerClient_old", "results"}

FileNames ==
    {"lf_results_1.txt", "lf_results_2.txt", "mx_results_1.txt", "lf_results.txt"}

LineRuntime == "Total runtime: 120.5 sec"
LineEnqueue == "Avg enqueue time: 1500 " \o MicroSign \o "s"
LineDequeue == "Avg dequeue time: 800 " \o MicroSign \o "s"
LineLatency == "Avg end-to-end request latency: 2 ms"
LineThroughput == "Throughput: 9500 ops"

\* File contents of the trees: A and B are complete (B in another line order,
\* other units and values, with indentation and a line without a label), M
\* misses the throughput line, U has a time unit the parser does not know.
ContentA == <<LineRuntime, LineEnqueue, LineDequeue, LineLatency, LineThroughput>>

ContentB ==
    <<"Queue under test", "Throughput: 12000 ops",
      "  Avg dequeue time: 2000000 ns ", "Avg enqueue time: 3 ms",
      "Avg end-to-end request latency: 2500 " \o MicroSign \o "s",
      "Total runtime: 98 ms">>

ContentM == <<LineRuntime, LineEnqueue, LineDequeue, LineLatency>>

ContentU ==
    <<LineRuntime, "Avg enqueue time: 1500 us", LineDequeue, LineLatency,
      LineThroughput>>

Contents == {ContentA, ContentB, ContentM, ContentU}

Files == FileNames \X Contents

\* The listings of a directory with at most n files: names are distinct, the
\* order is the order in which os.walk lists them.
Listings(n) ==
    {l \in UNION {[1..k -> Files] : k \in 0..n} :
        \A i, j \in 1..Len(l) : i # j => l[i][1] # l[j][1]}

\* The listings os.walk can yield when n more files fit the bound.
ListingsUpTo == [n \in 0..MaxFiles |-> Listings(n)]

(***************************************************************************)
(* Notions of the specification, stated without the program's functions:   *)
(* they define the history variables and the properties.                   *)
(***************************************************************************)
\* d is  threads_<T>_<R>_reqPerClient  with T in the allow-set.
RetainedDir(d) ==
    \E T \in VALID_THREAD_COUNTS, R \in 0..20 :
        d = "threads_" \o Str(str(T)) \o "_" \o Str(str(R)) \o "_reqPerClient"

\* d is  threads_<T>_<R>_reqPerClient  for some integers T, R.
PatternDir(d) ==
    \E T \in 0..40, R \in 0..20 :
        d = "threads_" \o Str(str(T)) \o "_" \o Str(str(R)) \o "_reqPerClient"

\* The file name contains the separator token.
HasSeparator(f) ==
    \E i \in 1..Len(f) : i + 8 <= Len(f) /\ SubSeq(f, i, i + 8) = "_results_"

MetricLabel ==
    [k \in MetricKeys |->
        CASE k = "runtime_ms" -> "Total runtime:"
          [] k = "avg_enqueue_ms" -> "Avg enqueue time:"
          [] k = "avg_dequeue_ms" -> "Avg dequeue time:"
          [] k = "latency_ms" -> "Avg end-to-end request latency:"
          [] k = "throughput_reqs_per_sec" -> "Throughput:"]

TimeKeys == {"avg_enqueue_ms", "avg_dequeue_ms", "latency_ms"}

\* The line, leading blanks aside, begins with the label.
Labelled(line, label) ==
    \E i \in 1..Len(line) :
        /\ \A j \in 1..(i - 1) : SubSeq(line, j, j) = " "
        /\ i + Len(label) - 1 <= Len(line)
        /\ SubSeq(line, i, i + Len(label) - 1) = label

\* The line, trailing blanks aside, ends with the text.
EndsWith(line, text) ==
    \E i \in 1..Len(line) :
        /\ \A j \in (i + 1)..Len(line) : SubSeq(line, j, j) = " "
        /\ i - Len(text) + 1 >= 1
        /\ SubSeq(line, i - Len(text) + 1, i) = text

LinesOf(content, k) == {i \in 1..Len(content) : Labelled(content[i], MetricLabel[k])}

\* No line of the file populates the metric.
MissingMetric(content, k) == LinesOf(content, k) = {}

MissingSomeMetric(content) == \E k \in MetricKeys : MissingMetric(content, k)

\* A time metric line whose unit token is none of ms, microseconds, ns.
UnknownUnit(line) ==
    /\ \E k \in TimeKeys : Labelled(line, MetricLabel[k])
    /\ ~EndsWith(line, " ms")
    /\ ~EndsWith(line, " " \o MicroSign \o "s")
    /\ ~EndsWith(line, " ns")

HasUnknownUnit(content) == \E i \in 1..Len(content) : UnknownUnit(content[i])

\* A file with a fatal parse error, as the specification defines it.
Malformed(content) == MissingSomeMetric(content) \/ HasUnknownUnit(content)

\* These notions on the directory names, file names and contents of the trees.
RetainedDirNames == {d \in DirNames : RetainedDir(d)}
PatternDirNames == {d \in DirNames : PatternDir(d)}
SeparatorNames == {f \in FileNames : HasSeparator(f)}
MalformedContents == {c \in Contents : Malformed(c)}

(***************************************************************************)
(* State of a run of main().                                               *)
(***************************************************************************)
VARIABLES
    pc,          \* position of the run
    dirname,     \* base name of the directory whose files are being read
    threads,     \* gather_results: threads of the directory last yielded
    reqs,        \* gather_results: reqs of the directory last yielded
    files,       \* files of the directory that the loop has not reached yet
    rows,        \* gather_results: the table
    csv,         \* files of the CSV directory written by this run
    plots,       \* chart files written by this run
    printed,     \* kinds of messages printed
    exc,         \* the exception that ended the run, or None
    nDirs,       \* directories yielded by os.walk so far
    nFiles,      \* files listed by os.walk so far
    timeCall,    \* a call of parse_time_to_ms: its argument and its result
    lastOpened,  \* history: <<directory, file name, contents>> of the last open()
    nQualifying, \* history: number of qualifying files listed so far
    sawBad,      \* history: a malformed qualifying file was listed
    skipped      \* history: the files passed over, each as <<why, its name has
                 \* the separator token, its contents are malformed>>

vars ==
    <<pc, dirname, threads, reqs, files, rows, csv, plots, printed, exc,
      nDirs, nFiles, timeCall, lastOpened, nQualifying, sawBad, skipped>>

NoTimeCall == [text |-> "", num |-> <<0, 1>>, unit |-> "", out |-> Raise("no call")]

\* Number of files of a listing with a name of the set.
RECURSIVE CountIn(_, _)
CountIn(listing, names) ==
    IF listing = <<>> THEN 0
    ELSE (IF Head(listing)[1] \in names THEN 1 ELSE 0) + CountIn(Tail(listing), names)

\* The state in which main() starts.
Start ==
    /\ pc = "walk"
    /\ dirname = ""
    /\ threads = NoneInt
    /\ reqs = NoneInt
    /\ files = <<>>
    /\ rows = <<>>
    /\ csv = <<>>
    /\ plots = {}
    /\ printed = {}
    /\ exc = None
    /\ nDirs = 0
    /\ nFiles = 0
    /\ lastOpened = <<>>
    /\ nQualifying = 0
    /\ sawBad = FALSE
    /\ skipped = {}

Init == Start /\ timeCall = NoTimeCall

\* Variant of SkipThreads: no directory is passed over for its thread count.
SkipThreads_never(dir_threads) == FALSE

\* gather_results, lines 114-117: the directory is passed over.
SkipThreads(dir_threads) == dir_threads \notin VALID_THREAD_COUNTS

\* Variant of FileBody: a file that fails to parse is passed over.
FileBody_isolating(table, dir_threads, dir_reqs, fname, content) ==
    IF ~contains(Chars(fname), Chars("_results_"))
    THEN [opened |-> FALSE, ok |-> TRUE, rows |-> table]
    ELSE LET queue_name == parse_queue_name(fname)
             metrics == parse_result_file(content)
         IN  [opened |-> TRUE, ok |-> TRUE,
              rows |-> IF metrics.ok
                       THEN Append(table, Row(dir_threads, dir_reqs, queue_name, metrics.val))
                       ELSE table]

\* gather_results, lines 120-131, the body of the loop over the files: whether
\* the file is opened, and the table after it or the exception it raises.
FileBody(table, dir_threads, dir_reqs, fname, content) ==
    IF ~contains(Chars(fname), Chars("_results_"))
    THEN [opened |-> FALSE, ok |-> TRUE, rows |-> table]
    ELSE LET queue_name == parse_queue_name(fname)
             metrics == parse_result_file(content)
         IN  IF metrics.ok
             THEN [opened |-> TRUE, ok |-> TRUE,
                   rows |-> Append(table, Row(dir_threads, dir_reqs, queue_name, metrics.val))]
             ELSE [opened |-> TRUE, ok |-> FALSE, err |-> metrics.err]

\* gather_results, one iteration of the loop over os.walk, which yields the
\* directory with base name d and some listing of files; lines 108-117.
WalkDir(d) ==
    /\ pc = "walk"
    /\ nDirs < MaxDirs
    /\ nDirs' = nDirs + 1
    /\ \E tr \in {parse_threads_and_reqs(d)}, keep \in {d \in RetainedDirNames} :
         /\ threads' = tr[1]
         /\ reqs' = tr[2]
         /\ \E listing \in ListingsUpTo[MaxFiles - nFiles] :
              /\ nFiles' = nFiles + Len(listing)
              /\ nQualifying' = nQualifying + 
                    (IF keep THEN CountIn(listing, SeparatorNames) ELSE 0)
              /\ sawBad' =
                    (sawBad \/ (keep /\ \E i \in 1..Len(listing) :
                                    listing[i][1] \in SeparatorNames
                                    /\ listing[i][2] \in MalformedContents))
              /\ skipped' = skipped \cup
                    (IF keep THEN {}
                     ELSE {<<IF d \in PatternDirNames THEN "excluded" ELSE "no match",
                             listing[i][1] \in SeparatorNames,
                             listing[i][2] \in MalformedContents>> :
                              i \in 1..Len(listing)})
              /\ IF threads' = NoneInt
                 THEN UNCHANGED <<pc, dirname, files, printed>>
                 ELSE IF SkipThreads(threads')
                 THEN /\ printed' = printed \cup {<<"Skip", threads'>>}
                      /\ UNCHANGED <<pc, dirname, files>>
                 ELSE /\ dirname' = d
                      /\ files' = listing
                      /\ pc' = IF listing = <<>> THEN "walk" ELSE "files"
                      /\ UNCHANGED printed
    /\ UNCHANGED <<rows, csv, plots, exc, timeCall, lastOpened>>

\* gather_results, one iteration of the loop over the files of a retained
\* directory; lines 119-131.
ProcessFile ==
    /\ pc = "files"
    /\ files # <<>>
    /\ LET fname == Head(files)[1]
           content == Head(files)[2]
       IN  /\ files' = Tail(files)
           /\ skipped' = skipped \cup
                (IF HasSeparator(fname) THEN {}
                 ELSE {<<"no separator", FALSE, Malformed(content)>>})
           /\ \E body \in {FileBody(rows, threads, reqs, fname, content)} :
                /\ lastOpened' =
                      IF body.opened THEN <<dirname, fname, content>> ELSE lastOpened
                /\ IF body.ok
                   THEN /\ rows' = body.rows
                        /\ pc' = IF Tail(files) = <<>> THEN "walk" ELSE "files"
                        /\ UNCHANGED exc
                   ELSE /\ exc' = <<body.err, dirname, fname>>
                        /\ pc' = "aborted"
                        /\ UNCHANGED rows
    /\ UNCHANGED <<dirname, threads, reqs, csv, plots, printed, nDirs, nFiles,
                   timeCall, nQualifying, sawBad>>

\* os.walk is exhausted: gather_results returns rows to main; lines 133, 213.
EndWalk ==
    /\ pc = "walk"
    /\ pc' = "main"
    /\ UNCHANGED <<dirname, threads, reqs, files, rows, csv, plots, printed, exc,
                   nDirs, nFiles, timeCall, lastOpened, nQualifying, sawBad, skipped>>

\* Variant of MainEmpty: main goes on to write the (empty) full table.
MainEmpty_writes ==
    /\ pc = "main"
    /\ rows = <<>>
    /\ csv' = write_csv(csv, rows, "all_results_filtered.csv")
    /\ printed' = printed \cup {<<"No rows found">>}
    /\ pc' = "done"
    /\ UNCHANGED <<dirname, threads, reqs, files, rows, plots, exc,
                   nDirs, nFiles, timeCall, lastOpened, nQualifying, sawBad, skipped>>

\* main, lines 214-216: no rows.
MainEmpty ==
    /\ pc = "main"
    /\ rows = <<>>
    /\ printed' = printed \cup {<<"No rows found">>}
    /\ pc' = "done"
    /\ UNCHANGED <<dirname, threads, reqs, files, rows, csv, plots, exc,
                   nDirs, nFiles, timeCall, lastOpened, nQualifying, sawBad, skipped>>

AllResultsFile == "all_results_filtered.csv"

\* main, line 218: write_csv(rows, "all_results_filtered.csv").
WriteAll ==
    /\ pc = "main"
    /\ rows # <<>>
    /\ csv' = write_csv(csv, rows, AllResultsFile)
    /\ printed' = printed \cup {<<"CSV">>}
    /\ pc' = "per_workload"
    /\ UNCHANGED <<dirname, threads, reqs, files, rows, plots, exc,
                   nDirs, nFiles, timeCall, lastOpened, nQualifying, sawBad, skipped>>

\* main, line 219: write_per_workload_csvs(rows).
WritePerWorkload ==
    /\ pc = "per_workload"
    /\ csv' = write_per_workload_csvs(csv, rows)
    /\ pc' = "plots"
    /\ UNCHANGED <<dirname, threads, reqs, files, rows, plots, printed, exc,
                   nDirs, nFiles, timeCall, lastOpened, nQualifying, sawBad, skipped>>

\* main, lines 220-222: generate_all_plots(rows) and the closing message.
GeneratePlots ==
    /\ pc = "plots"
    /\ plots' = plots \cup generate_all_plots(rows)
    /\ printed' = printed \cup {<<"Plot">>, <<"All CSVs and plots generated">>}
    /\ pc' = "done"
    /\ UNCHANGED <<dirname, threads, reqs, files, rows, csv, exc,
                   nDirs, nFiles, timeCall, lastOpened, nQualifying, sawBad, skipped>>

Next ==
    \/ \E d \in DirNames : WalkDir(d)
    \/ ProcessFile
    \/ EndWalk
    \/ MainEmpty
    \/ WriteAll
    \/ WritePerWorkload
    \/ GeneratePlots

Spec == Init /\ [][Next]_vars

(***************************************************************************)
(* gather_results on one retained directory that holds one result file,    *)
(* for every arrangement of lines of a pool.                               *)
(***************************************************************************)
FileDir == "threads_8_2_reqPerClient"
FileName == "lf_results_1.txt"

\* The lines of ContentA, a second line with the label of the runtime and a
\* line of the dequeue time with a unit the parser does not know.
LinePool ==
    {LineRuntime, LineEnqueue, LineDequeue, LineLatency, LineThroughput,
     "Total runtime: 98 ms", "Avg dequeue time: 800 us"}

\* The files of k lines of the pool, no line twice, in every order.
RECURSIVE Arrangements(_)
Arrangements(k) ==
    IF k = 0 THEN {<<>>}
    ELSE {Append(a, l) : a \in Arrangements(k - 1), l \in LinePool} \
         {Append(a, a[i]) : a \in Arrangements(k - 1), i \in 1..(k - 1)}

FileContents == UNION {Arrangements(k) : k \in 0..MaxLines}

\* The state of gather_results when os.walk has yielded the directory dir
\* with the one file <<name, content>>.
AtFile(dir, name, content) ==
    /\ pc = "files"
    /\ dirname = dir
    /\ threads = parse_threads_and_reqs(dir)[1]
    /\ reqs = parse_threads_and_reqs(dir)[2]
    /\ files = << <<name, content>> >>
    /\ rows = <<>>
    /\ csv = <<>>
    /\ plots = {}
    /\ printed = {}
    /\ exc = None
    /\ nDirs = 1
    /\ nFiles = 1
    /\ lastOpened = <<>>
    /\ nQualifying = 1
    /\ sawBad = Malformed(content)
    /\ skipped = {}

InitFile ==
    /\ \E content \in FileContents : AtFile(FileDir, FileName, content)
    /\ timeCall = NoTimeCall

NextFile ==
    \/ ProcessFile
    \/ EndWalk

SpecFile == InitFile /\ [][NextFile]_vars

(***************************************************************************)
(* parse_time_to_ms on "<value> <unit>", alone and as the enqueue time of  *)
(* a result file.                                                          *)
(***************************************************************************)
\* Value tokens, each with the number it denotes.
TimeValues ==
    {<<"1500", <<1500, 1>>>>, <<"0.5", <<1, 2>>>>, <<"2.50", <<5, 2>>>>,
     <<"7.", <<7, 1>>>>, <<".25", <<1, 4>>>>, <<"0", <<0, 1>>>>,
     <<"1000000", <<1000000, 1>>>>, <<"120.5", <<241, 2>>>>}

TimeUnits == {"ms", MicroSign \o "s", "ns", "us", "s", "sec", "MS", "msec", "m"}

TimeContent(text, unit) ==
    <<LineRuntime, "Avg enqueue time: " \o text \o " " \o unit, LineDequeue,
      LineLatency, LineThroughput>>

InitTime ==
    \E v \in TimeValues, unit \in TimeUnits :
        /\ timeCall = [text |-> v[1], num |-> v[2], unit |-> unit,
                       out |-> Raise("no call")]
        /\ AtFile(FileDir, FileName, TimeContent(v[1], unit))

\* A call parse_time_to_ms(text + " " + unit).
ParseTime ==
    /\ ~timeCall.out.ok
    /\ timeCall.out.err = "no call"
    /\ timeCall' =
          [timeCall EXCEPT !.out = parse_time_to_ms(timeCall.text \o " " \o timeCall.unit)]
    /\ UNCHANGED <<pc, dirname, threads, reqs, files, rows, csv, plots, printed, exc,
                   nDirs, nFiles, lastOpened, nQualifying, sawBad, skipped>>

NextTime ==
    \/ ParseTime
    \/ ProcessFile
    \/ EndWalk

SpecTime == InitTime /\ [][NextTime]_vars

(***************************************************************************)
(* main() from the return of gather_results, for every table of at most    *)
(* MaxRows records gathered from result files of retained directories.     *)
(***************************************************************************)
ExportDirs ==
    {"threads_8_2_reqPerClient", "threads_16_2_reqPerClient",
     "threads_8_10_reqPerClient", "threads_16_10_reqPerClient"}

ExportFiles == {"lf_results_1.txt", "MS_results_1.txt"}

\* The qualifying files of the trees, each with the record gather_results
\* appends for it.
Gathered ==
    {<<d, f, c, FileBody(<<>>, parse_threads_and_reqs(d)[1],
                         parse_threads_and_reqs(d)[2], f, c).rows[1]>> :
        d \in ExportDirs, f \in ExportFiles, c \in {ContentA, ContentB}}

GatheredUpTo == UNION {[1..k -> Gathered] : k \in 0..MaxRows}

\* The state in which gather_results returns, after a walk that yielded one
\* directory per element of g, each holding that one file.
InitExport ==
    \E g \in GatheredUpTo :
        /\ pc = "main"
        /\ rows = [i \in 1..Len(g) |-> g[i][4]]
        /\ dirname = IF g = <<>> THEN "" ELSE g[Len(g)][1]
        /\ threads = IF g = <<>> THEN NoneInt ELSE g[Len(g)][4].threads
        /\ reqs = IF g = <<>> THEN NoneInt ELSE g[Len(g)][4].requests_per_client
        /\ lastOpened = IF g = <<>> THEN <<>>
                        ELSE <<g[Len(g)][1], g[Len(g)][2], g[Len(g)][3]>>
        /\ files = <<>>
        /\ csv = <<>>
        /\ plots = {}
        /\ printed = {}
        /\ exc = None
        /\ nDirs = Len(g)
        /\ nFiles = Len(g)
        /\ nQualifying = Len(g)
        /\ sawBad = FALSE
        /\ skipped = {}
        /\ timeCall = NoTimeCall

NextExport ==
    \/ MainEmpty
    \/ WriteAll
    \/ WritePerWorkload
    \/ GeneratePlots

SpecExport == InitExport /\ [][NextExport]_vars

(***************************************************************************)
(* Properties.  They are stated with the notions of the specification      *)
(* above and with the definitions below, not with the program's functions. *)
(***************************************************************************)
PostGather == {"main", "per_workload", "plots", "done"}
PostWriteAll == {"per_workload", "plots", "done"}

\* The two sequences hold the same records, each as many times.
SameRecords(a, b) ==
    /\ Len(a) = Len(b)
    /\ \A i \in 1..Len(a) :
          Cardinality({j \in 1..Len(a) : a[j] = a[i]}) =
          Cardinality({j \in 1..Len(b) : b[j] = a[i]})

\* The queue names of the inputs in ascending lexicographic order (by code
\* point: upper case before lower case).
QueueOrder == <<"MS", "lf", "mx">>
QueueRank(q) == CHOOSE i \in 1..Len(QueueOrder) : QueueOrder[i] = q

SameKey(a, b) ==
    /\ a.requests_per_client = b.requests_per_client
    /\ a.threads = b.threads
    /\ a.queue = b.queue

\* a comes strictly before b in the order (requests_per_client, threads,
\* queue), numbers compared as numbers.
KeyBefore(a, b) ==
    \/ a.requests_per_client < b.requests_per_client
    \/ /\ a.requests_per_client = b.requests_per_client
       /\ a.threads < b.threads
    \/ /\ a.requests_per_client = b.requests_per_client
       /\ a.threads = b.threads
       /\ QueueRank(a.queue) < QueueRank(b.queue)

\* The records of the table with the given requests_per_client, in table order.
OfWorkload(R) ==
    LET Test(r) == r.requests_per_client = R IN SelectSeq(rows, Test)

Workloads == {rows[i].requests_per_client : i \in 1..Len(rows)}

\* The records a written file is made from: the table, or one workload of it.
WrittenFrom(f) ==
    IF f = AllResultsFile THEN rows ELSE OfWorkload(csv[f][1].requests_per_client)

\* out is src sorted by the key, records of equal key in the order of src.
StablySorted(out, src) ==
    /\ Len(out) = Len(src)
    /\ \E p \in Permutations(1..Len(src)) :
          /\ \A i \in 1..Len(out) : out[i] = src[p[i]]
          /\ \A i, j \in 1..Len(out) :
                i < j => \/ KeyBefore(out[i], out[j])
                         \/ SameKey(out[i], out[j]) /\ p[i] < p[j]

\* C1: parse_result_file never yields a partial record: every record of the
\* table has all five metrics, and when no line of the opened file populates
\* one of the metrics, the run is aborted by the error and the table has no
\* record of the file.
C1_NoPartialRecord ==
    /\ \A i \in 1..Len(rows) : \A k \in MetricKeys : rows[i][k] # None
    /\ (lastOpened # <<>> /\ MissingSomeMetric(lastOpened[3])) =>
          /\ pc = "aborted"
          /\ exc # None
          /\ rows = <<>>

\* A file with four of the five metrics, all in known units, was opened and
\* the run is aborted.
C1_Witness ==
    /\ pc = "aborted"
    /\ lastOpened # <<>>
    /\ Len(lastOpened[3]) = 4
    /\ MissingSomeMetric(lastOpened[3])
    /\ ~HasUnknownUnit(lastOpened[3])
    /\ \A k \in MetricKeys : Cardinality(LinesOf(lastOpened[3], k)) <= 1

\* C2: once a qualifying file with a missing metric or an unknown time unit
\* has been listed, the run never gets past it: no CSV file and no chart is
\* written, and the run either is aborted by the error or still has such a
\* file to read in the directory it is reading.
C2_FatalErrorAbortsRun ==
    sawBad =>
        /\ DOMAIN csv = {}
        /\ plots = {}
        /\ pc \notin PostGather
        /\ \/ pc = "aborted" /\ exc # None
           \/ /\ pc = "files"
              /\ \E i \in 1..Len(files) :
                    /\ files[i][1] \in SeparatorNames
                    /\ files[i][2] \in MalformedContents

\* A run aborted by a malformed file after another file had been parsed into
\* the table.
C2_Witness ==
    /\ sawBad
    /\ pc = "aborted"
    /\ exc # None
    /\ rows # <<>>

\* C3: every record of the table has a thread count of the allow-set.
C3_ThreadsInAllowSet ==
    \A i \in 1..Len(rows) : rows[i].threads \in VALID_THREAD_COUNTS

\* A finished run with records in the table, whose tree has a directory with
\* an excluded thread count holding a well-formed file named like a result
\* file, and which printed the skip notice for 32 threads.
C3_Witness ==
    /\ pc = "done"
    /\ rows # <<>>
    /\ <<"excluded", TRUE, FALSE>> \in skipped
    /\ <<"Skip", 32>> \in printed

\* C4 as amended: every CSV file holds its records in non-decreasing order of
\* (requests_per_client, threads, queue), records with the same key in the
\* order they have in the table; the row order is thereby fixed by the table.
C4_SortedStable ==
    pc \in PostWriteAll =>
        \A f \in DOMAIN csv : StablySorted(csv[f], WrittenFrom(f))

\* A finished export whose table holds two different records with the same
\* key and is not in sorted order itself.
C4_Witness ==
    /\ pc = "done"
    /\ Len(rows) = 3
    /\ csv[AllResultsFile] # rows
    /\ \E i, j \in 1..Len(rows) : i < j /\ SameKey(rows[i], rows[j]) /\ rows[i] # rows[j]
    /\ Cardinality(DOMAIN csv) = 3

\* C4 as claimed: every CSV file is strictly sorted by (requests_per_client,
\* threads, queue), also for tables with several records of the same triple.
C4_StrictlySorted ==
    pc \in PostWriteAll =>
        \A f \in DOMAIN csv :
            /\ SameRecords(csv[f], WrittenFrom(f))
            /\ \A i, j \in 1..Len(csv[f]) : i < j => KeyBefore(csv[f][i], csv[f][j])

\* C5: as long as the tree has yielded no qualifying file, no error is
\* raised, the table is empty and nothing is written; the finished run has
\* printed the diagnostic.
C5_EmptyResult ==
    nQualifying = 0 =>
        /\ pc \notin {"aborted", "per_workload", "plots"}
        /\ exc = None
        /\ rows = <<>>
        /\ DOMAIN csv = {}
        /\ plots = {}
        /\ pc = "done" => <<"No rows found">> \in printed

\* A finished run over a tree with files, none of them qualifying.
C5_Witness ==
    /\ pc = "done"
    /\ nQualifying = 0
    /\ nFiles = 2
    /\ nDirs = 2
    /\ <<"No rows found">> \in printed

\* C6: after gather_results has returned, the table has one record per
\* qualifying file, and the full-table CSV file holds exactly the records of
\* the table, each as often as the table has it.
C6_NoDeduplication ==
    /\ pc \in PostGather => Len(rows) = nQualifying
    /\ (pc \in PostWriteAll /\ rows # <<>>) =>
          /\ AllResultsFile \in DOMAIN csv
          /\ SameRecords(csv[AllResultsFile], rows)

\* A finished run whose table has two records of the same triple, both in
\* the full-table file.
C6_Witness ==
    /\ pc = "done"
    /\ Len(rows) = 2
    /\ SameKey(rows[1], rows[2])
    /\ Len(csv[AllResultsFile]) = 2
    /\ SameKey(csv[AllResultsFile][1], csv[AllResultsFile][2])

\* The file with lines i and i + 1 exchanged.
Exchanged(content, i) ==
    [j \in 1..Len(content) |->
        IF j = i THEN content[i + 1] ELSE IF j = i + 1 THEN content[i] ELSE content[j]]

\* What parsing the opened file gave: the five metrics of its record, or no
\* metrics when it raised.
Parsed == IF rows = <<>> THEN EmptyMetrics ELSE [k \in MetricKeys |-> rows[1][k]]

\* What parsing a file with these lines gives.
WouldParse(content) ==
    LET r == parse_result_file(content) IN IF r.ok THEN r.val ELSE EmptyMetrics

\* No metric label occurs on more than one line of the file.
OneLinePerLabel(content) ==
    \A k \in MetricKeys : Cardinality(LinesOf(content, k)) <= 1

\* C7 as amended: for a file in which no metric label occurs on more than one
\* line, parsing gives the same outcome (the same five values, or an error)
\* for the file with any two neighbouring lines exchanged, hence, the files
\* being all arrangements of their lines, for every permutation of its lines.
C7_OrderIrrelevantDistinctLabels ==
    (lastOpened # <<>> /\ OneLinePerLabel(lastOpened[3])) =>
        \A i \in 1..(Len(lastOpened[3]) - 1) :
            WouldParse(Exchanged(lastOpened[3], i)) = Parsed

\* The lines of ContentA in the reverse order were parsed into a record.
C7_Witness ==
    /\ lastOpened # <<>>
    /\ lastOpened[3] =
          <<LineThroughput, LineLatency, LineDequeue, LineEnqueue, LineRuntime>>
    /\ Len(rows) = 1
    /\ rows[1].runtime_ms = <<241, 2>>
    /\ rows[1].avg_dequeue_ms = <<4, 5>>

\* C7 as claimed: the same for every file, also one in which a metric label
\* occurs on more than one line.
C7_OrderIrrelevant ==
    lastOpened # <<>> =>
        \A i \in 1..(Len(lastOpened[3]) - 1) :
            WouldParse(Exchanged(lastOpened[3], i)) = Parsed

\* C8: once the per-workload files are written for a non-empty table, the
\* CSV directory has the full-table file with the records of the table and,
\* besides it, as many files as the table has requests_per_client values:
\* for every value a file with exactly the records of that value, and no
\* file of other content.
C8_PerWorkloadFiles ==
    (pc \in {"plots", "done"} /\ rows # <<>>) =>
        LET perWorkload == DOMAIN csv \ {AllResultsFile}
        IN  /\ AllResultsFile \in DOMAIN csv
            /\ SameRecords(csv[AllResultsFile], rows)
            /\ Cardinality(perWorkload) = Cardinality(Workloads)
            /\ \A R \in Workloads :
                  \E f \in perWorkload : SameRecords(csv[f], OfWorkload(R))
            /\ \A f \in perWorkload :
                  \E R \in Workloads : SameRecords(csv[f], OfWorkload(R))

\* A finished export of a table of three records over two workloads.
C8_Witness ==
    /\ pc = "done"
    /\ Len(rows) = 3
    /\ Workloads = {2, 10}
    /\ Cardinality(DOMAIN csv) = 3
    /\ \E f \in DOMAIN csv : Len(csv[f]) = 2

KnownUnits == {"ms", MicroSign \o "s", "ns"}

\* The number q is the number n divided by k.
IsQuotient(q, n, k) == q[1] * n[2] * k = n[1] * q[2]

\* What parse_time_to_ms has to return for the value n in the unit.
Converted(out, n, unit) ==
    /\ out[2] > 0
    /\ unit = "ms" => out = n
    /\ unit = MicroSign \o "s" => IsQuotient(out, n, 1000)
    /\ unit = "ns" => IsQuotient(out, n, 1000000)

\* C9: parse_time_to_ms returns a value in ms unchanged, a value in
\* microseconds divided by 1000 and a value in ns divided by 1,000,000, and
\* raises for every other unit token; a result file whose enqueue time has
\* the unit gets that value into its record, or fails for another unit.
C9_UnitConversion ==
    /\ (timeCall.out.ok \/ timeCall.out.err # "no call") =>
          IF timeCall.unit \in KnownUnits
          THEN /\ timeCall.out.ok
               /\ Converted(timeCall.out.val, timeCall.num, timeCall.unit)
          ELSE /\ ~timeCall.out.ok
               /\ timeCall.out.err = ValueError
    /\ lastOpened # <<>> =>
          IF timeCall.unit \in KnownUnits
          THEN /\ Len(rows) = 1
               /\ Converted(rows[1].avg_enqueue_ms, timeCall.num, timeCall.unit)
          ELSE /\ rows = <<>>
               /\ pc = "aborted"
               /\ exc # None

\* 1500 microseconds were converted to 3/2 ms, by the call and in the record
\* of the file.
C9_Witness ==
    /\ timeCall.text = "1500"
    /\ timeCall.unit = MicroSign \o "s"
    /\ timeCall.out.ok
    /\ timeCall.out.val = <<3, 2>>
    /\ Len(rows) = 1
    /\ rows[1].avg_enqueue_ms = <<3, 2>>

\* The step opens a file (or changes the table or raises).
Touches == rows' # rows \/ exc' # exc \/ lastOpened' # lastOpened

\* C10: a file is opened only in a directory named threads_<T>_<R>_reqPerClient
\* with T of the allow-set and only with the separator token in its name, an
\* error is raised only by such a file, and a step changes the table or
\* raises only by opening such a file: files passed over leave the table
\* and the error as they are, whatever they contain.
C10_OnlyQualifyingFilesParsed ==
    /\ [](/\ lastOpened # <<>> =>
                /\ lastOpened[1] \in RetainedDirNames
                /\ lastOpened[2] \in SeparatorNames
          /\ pc = "aborted" =>
                /\ exc # None
                /\ lastOpened # <<>>
                /\ exc[2] = lastOpened[1]
                /\ exc[3] = lastOpened[2])
    /\ [][Touches =>
            /\ files # <<>>
            /\ dirname \in RetainedDirNames
            /\ Head(files)[1] \in SeparatorNames
            /\ lastOpened' = <<dirname, Head(files)[1], Head(files)[2]>>]_vars

\* A finished run with a record in the table whose tree has a malformed file
\* in a directory that does not match the pattern, or one with an excluded
\* thread count, or one without the separator token in a retained directory.
C10_Witness ==
    /\ pc = "done"
    /\ rows # <<>>
    /\ \E why \in {"no match", "excluded", "no separator"}, sep \in BOOLEAN :
          <<why, sep, TRUE>> \in skipped
====
